---- MODULE Spec2Model ----
(***************************************************************************)
(* Model of the refresh / retry / cache / notify core of ClaudeUsageApp    *)
(* (src/claude_usage.py).                                                  *)
(*                                                                         *)
(* Percentages are kept as integers in percent units: the code divides the *)
(* API's utilization by 100 and compares with 0.70 / 0.85 / 0.95, which    *)
(* for the integer utilizations drawn here is the comparison with 70 / 85  *)
(* / 95.  Text is kept as sequences of tokens so that the key format and   *)
(* the prefix test of check_thresholds are computed, not assumed.          *)
(***************************************************************************)
EXTENDS Integers, Sequences, FiniteSets, TLC

(***************************************************************************)
(* Configuration (src/claude_usage.py 17-24)                               *)
(***************************************************************************)
MAX_RETRIES == 3

THRESHOLDS == [warning |-> 70, danger |-> 85, critical |-> 95]

LevelOrder_CriticalFirst == <<"critical", "danger", "warning">>

\* iteration order of THRESHOLDS.items(): insertion order of the dict
LevelOrder == <<"warning", "danger", "critical">>

\* the literal 5 of `self.consecutive_failures < 5` in refresh
CacheFailureLimit == 5

(***************************************************************************)
(* Bounds of the model                                                     *)
(***************************************************************************)
\* a timer cycle is started only while consecutive_failures is below this
MaxFailures == 6

(***************************************************************************)
(* Values                                                                  *)
(***************************************************************************)
None == "None"
Tok  == "tok"

\* a metric's 'utilization' field: a number, absent (-1), or not a number (-2)
Missing    == -1
NonNumeric == -2

\* utilizations the API reports here: one below warning (57, which
\* int(pct * 100) does not give back) and one in each threshold band for the
\* 5h metric; below warning and above critical for the weekly metric
UtilValues == {57, 72, 90, 96}
WeekValues == {40, 96}

\* last_known_usage before any response was cached
NoUsage == [kind |-> "none", five |-> Missing, week |-> Missing, resets |-> "ok"]

\* a 2xx body that is the empty object {} (falsy in Python)
EmptyBody == [kind |-> "empty", five |-> Missing, week |-> Missing, resets |-> "ok"]

\* a 2xx body that is JSON but not an object of objects (a list, or
\* five_hour: null): every .get on it raises
NonDictBody == [kind |-> "nondict", five |-> Missing, week |-> Missing, resets |-> "ok"]

\* well-typed bodies: {five_hour: {utilization, resets_at}, seven_day: {...}}
\* the last one has no 'utilization' in either metric
NumericBodies ==
    [kind : {"data"}, five : UtilValues, week : WeekValues, resets : {"ok"}]
    \cup {[kind |-> "data", five |-> Missing, week |-> Missing, resets |-> "ok"]}

\* bodies with a field of an unexpected type: a non-numeric utilization, or
\* a resets_at that is not a string
MalformedBodies ==
    { [kind |-> "data", five |-> NonNumeric, week |-> 40, resets |-> "ok"],
      [kind |-> "data", five |-> 72, week |-> 40, resets |-> "bad"] }

Bodies == NumericBodies \cup MalformedBodies \cup {EmptyBody, NonDictBody}

\* Python truthiness of a usage value: None and {} are falsy
Truthy(u) == u.kind \in {"data", "nondict"}

\* metric.get('utilization', 0)
Utilization(m) == IF m = Missing THEN 0 ELSE m

\* usage.get(...).get('utilization', 0) / 100 raises for these
UtilFaults(u) == u.kind = "nondict" \/ u.five = NonNumeric \/ u.week = NonNumeric

\* format_reset raises out of its except clause (len of a non-string)
ResetFaults(u) == u.resets = "bad"

FiveLabel == <<"5h", " ", "limit">>
WeekLabel == <<"Weekly", " ", "limit">>
Labels    == {FiveLabel, WeekLabel}

(***************************************************************************)
(* get_icon, get_title (242-259)                                           *)
(***************************************************************************)
get_icon_WarningFirst(pct) ==
    IF pct >= THRESHOLDS["warning"] THEN "yellow"
    ELSE IF pct >= THRESHOLDS["danger"] THEN "orange"
    ELSE IF pct >= THRESHOLDS["critical"] THEN "red"
    ELSE "green"

get_icon(pct) ==
    IF pct >= THRESHOLDS["critical"] THEN "red"
    ELSE IF pct >= THRESHOLDS["danger"] THEN "orange"
    ELSE IF pct >= THRESHOLDS["warning"] THEN "yellow"
    ELSE "green"

\* int(pct * 100) where pct = u / 100 in binary floating point: the product
\* falls just below u for 29, 57 and 58 and truncates to u - 1
IntPct(u) == IF u \in {29, 57, 58} THEN u - 1 ELSE u

get_title(five_pct, week_pct) ==
    <<get_icon(five_pct), IntPct(five_pct), get_icon(week_pct), IntPct(week_pct)>>

(***************************************************************************)
(* check_thresholds (261-285)                                              *)
(***************************************************************************)
\* key = f"{label}_{level}"
Key(label, level) == label \o <<"_", level>>

\* k.startswith(label)
StartsWith(k, label) ==
    Len(k) >= Len(label) /\ SubSeq(k, 1, Len(label)) = label

NotificationTitle(level) ==
    IF level = "critical" THEN "Usage Critical!"
    ELSE IF level = "danger" THEN "Usage High"
    ELSE "Usage Warning"

ShouldNotify_NoMemo(pct, threshold, key, levels) == pct >= threshold

\* `if pct >= threshold and key not in self.notified_levels`
ShouldNotify(pct, threshold, key, levels) ==
    pct >= threshold /\ key \notin levels

RECURSIVE CheckLevels(_, _, _, _, _)
\* the for loop of check_thresholds from its i-th level on
CheckLevels(i, levels, notes, pct, label) ==
    IF i > Len(LevelOrder) THEN [levels |-> levels, notes |-> notes]
    ELSE LET level == LevelOrder[i]
             key   == Key(label, level)
         IN  IF ShouldNotify(pct, THRESHOLDS[level], key, levels)
             THEN CheckLevels(i + 1, levels \cup {key},
                              Append(notes, <<NotificationTitle(level), label>>),
                              pct, label)
             ELSE CheckLevels(i + 1, levels, notes, pct, label)

ClearBelowWarning_Never(levels, pct, label) == levels

ClearBelowWarning_AllLabels(levels, pct, label) ==
    IF pct < THRESHOLDS["warning"] THEN {} ELSE levels

\* the hysteresis reset at the end of check_thresholds
ClearBelowWarning(levels, pct, label) ==
    IF pct < THRESHOLDS["warning"]
    THEN {k \in levels : ~StartsWith(k, label)}
    ELSE levels

\* what check_thresholds leaves, r being the outcome of its for loop
AfterLoop(r, pct, label) ==
    [levels |-> ClearBelowWarning(r.levels, pct, label), notes |-> r.notes]

check_thresholds(levels, pct, label) ==
    AfterLoop(CheckLevels(1, levels, <<>>, pct, label), pct, label)

(***************************************************************************)
(* show_error_state (220-233), refresh after fetch_usage returned          *)
(* (188-218), safe_refresh (176-182)                                       *)
(***************************************************************************)
\* The status line is written first; the title is computed from
\* last_known_usage and the computation raises on a malformed snapshot,
\* leaving the title as it was.
show_error_state(message, usage, ttl) ==
    [status |-> message,
     title  |-> IF ~Truthy(usage) THEN <<"warn">>
                ELSE IF UtilFaults(usage) THEN ttl
                ELSE <<"warn", IntPct(Utilization(usage.five)),
                               IntPct(Utilization(usage.week))>>,
     fault  |-> Truthy(usage) /\ UtilFaults(usage)]

UseCache_IgnoreCount(usage, failures) == Truthy(usage)

UseCache_OffByOne(usage, failures) ==
    Truthy(usage) /\ failures <= CacheFailureLimit

\* `if self.last_known_usage and self.consecutive_failures < 5`
UseCache(usage, failures) ==
    Truthy(usage) /\ failures < CacheFailureLimit

\* lines 207-218 done: c5 and cw are the two check_thresholds calls
Rendered(usage, c5, cw, branch) ==
    [status |-> <<"Connected">>,
     title  |-> get_title(Utilization(usage.five), Utilization(usage.week)),
     levels |-> cw.levels, notes |-> c5.notes \o cw.notes,
     branch |-> branch, rendered |-> TRUE, fault |-> FALSE,
     caught |-> FALSE, escaped |-> FALSE]

\* line 218, after the check of the 5h metric left c5
CheckWeekly(usage, c5, branch) ==
    Rendered(usage, c5,
             check_thresholds(c5.levels, Utilization(usage.week), WeekLabel),
             branch)

\* lines 198-218 on the snapshot `usage`, entered with status line `st`:
\* a fault at 201-205 leaves the display and notified_levels as they were
Render(usage, levels, ttl, st, branch) ==
    IF UtilFaults(usage) \/ ResetFaults(usage)
    THEN [status |-> st, title |-> ttl, levels |-> levels, notes |-> <<>>,
          branch |-> branch, rendered |-> FALSE, fault |-> TRUE,
          caught |-> FALSE, escaped |-> FALSE]
    ELSE CheckWeekly(usage,
                     check_thresholds(levels, Utilization(usage.five), FiveLabel),
                     branch)

\* lines 195-196: e is what show_error_state("Connection failed") did
ErrorBranch(e, levels) ==
    [status |-> e.status, title |-> e.title, levels |-> levels,
     notes |-> <<>>, branch |-> "error", rendered |-> FALSE,
     fault |-> e.fault, caught |-> FALSE, escaped |-> FALSE]

\* refresh, from the return of fetch_usage on: `usage` is what it returned,
\* `cached` and `failures` are last_known_usage and consecutive_failures
\* as fetch_usage left them
refresh(usage, cached, failures, levels, ttl, st) ==
    IF ~Truthy(usage)
    THEN IF UseCache(cached, failures)
         THEN Render(cached, levels, ttl, <<"Cached", failures>>, "cached")
         ELSE ErrorBranch(show_error_state(<<"Connection failed">>, cached, ttl),
                          levels)
    ELSE Render(usage, levels, ttl, st, "connected")

\* the except clause of safe_refresh: e is what its show_error_state did
Caught(r, e) ==
    [r EXCEPT !.status = e.status, !.title = e.title,
              !.caught = TRUE, !.escaped = e.fault]

\* the try of safe_refresh around the outcome r of refresh; the handler's
\* show_error_state runs outside any try
Guarded(r, cached) ==
    IF r.fault
    THEN Caught(r, show_error_state(<<"Error">>, cached, r.title))
    ELSE r

safe_refresh(usage, cached, failures, levels, ttl, st) ==
    Guarded(refresh(usage, cached, failures, levels, ttl, st), cached)

(***************************************************************************)
(* State                                                                   *)
(***************************************************************************)
VARIABLES
    \* fields of ClaudeUsageApp (60-65) and of its display (41-47)
    token, notified_levels, consecutive_failures, last_known_usage,
    token_refresh_attempts, title, status,
    \* control: where the main thread is, and the loop indices
    pc,             \* "init", "store", "api", "done", "idle", "crashed"
    attempt,        \* `attempt` of fetch_usage's for loop
    tattempt,       \* `attempt` of get_token's for loop
    force_refresh,  \* get_token was entered from the 401 branch
    active,         \* callbacks between their start and their end
    \* history
    cyc,            \* record of the current cycle, cleared when it returns
    auth,           \* auth notifications since the last retrieved token
    probe           \* record of direct check_thresholds calls

prog   == <<token, notified_levels, consecutive_failures, last_known_usage,
            token_refresh_attempts, title, status>>
ctl    == <<pc, attempt, tattempt, force_refresh, active>>
vars   == <<token, notified_levels, consecutive_failures, last_known_usage,
            token_refresh_attempts, title, status,
            pc, attempt, tattempt, force_refresh, active,
            cyc, auth, probe>>

Min(a, b) == IF a <= b THEN a ELSE b

NoCycle ==
    \* cf0, hadCache: consecutive_failures and the truth of last_known_usage
    \* when safe_refresh is entered; overLimit: manual_refresh found
    \* consecutive_failures at 5 or more; levelsChanged: the cycle left
    \* notified_levels other than it found it
    [kind |-> "none", cf0 |-> 0, hadCache |-> FALSE, overLimit |-> FALSE,
     levelsChanged |-> FALSE, apiCalls |-> 0,
     lookups |-> 0, lastResp |-> "none", saw2xx |-> FALSE, end |-> "none",
     result |-> NoUsage, branch |-> "none", rendered |-> FALSE,
     notes |-> <<>>, caught |-> FALSE, escaped |-> FALSE]

NoProbe ==
    [label |-> <<>>, pct |-> -1, prev |-> -1, emitted |-> {}, notes |-> <<>>,
     last  |-> [l \in Labels |-> -1],
     peak  |-> [l \in Labels |-> -1],
     count |-> [l \in Labels |-> [v \in DOMAIN THRESHOLDS |-> 0]],
     trip  |-> [l \in Labels |-> 0]]

\* the state at line 74, before the initial safe_refresh(None)
Init ==
    /\ token = None
    /\ notified_levels = {}
    /\ consecutive_failures = 0
    /\ last_known_usage = NoUsage
    /\ token_refresh_attempts = 0
    /\ title = <<"hourglass">>
    /\ status = <<"Starting...">>
    /\ pc = "init"
    /\ attempt = 0
    /\ tattempt = 0
    /\ force_refresh = FALSE
    /\ active = 0
    /\ cyc = NoCycle
    /\ auth = [notes |-> 0, exhausted |-> FALSE]
    /\ probe = NoProbe

(***************************************************************************)
(* The refresh cycle.  One step is one blocking external call (a Keychain  *)
(* lookup or an API request) together with all the code that runs up to    *)
(* the next external call or to the return of safe_refresh.                *)
(***************************************************************************)
StoreOutcomes == {"token", "absent", "timeout", "access_error", "malformed"}

\* responses other than a 2xx with a JSON body
ApiFailures == {"401", "4xx", "5xx", "timeout", "connection", "invalid_json"}

\* how fetch_usage treats a response
ResponseClass(code) ==
    IF code \in {"401", "4xx", "200"} THEN code ELSE "retryable"

AuthNotification == <<"Authentication Required", <<>>>>

\* the next external call is an API request: fetch_usage's loop at index a
ToApi(c, a, failures, cached) ==
    /\ pc' = "api"
    /\ attempt' = a
    /\ tattempt' = 0
    /\ force_refresh' = FALSE
    /\ consecutive_failures' = failures
    /\ last_known_usage' = cached
    /\ cyc' = c
    /\ UNCHANGED <<notified_levels, title, status>>

\* the next external call is a Keychain lookup: get_token's loop at index t
ToStore(c, t, force) ==
    /\ pc' = "store"
    /\ tattempt' = t
    /\ force_refresh' = force
    /\ cyc' = c
    /\ UNCHANGED <<attempt, consecutive_failures, last_known_usage,
                   notified_levels, title, status>>

\* fetch_usage returns `usage`; refresh and safe_refresh run to their end
Finish(c, usage, failures, cached, end) ==
    \E r \in {safe_refresh(usage, cached, failures, notified_levels, title, status)} :
        /\ pc' = "done"
        /\ attempt' = 0
        /\ tattempt' = 0
        /\ force_refresh' = FALSE
        /\ consecutive_failures' = failures
        /\ last_known_usage' = cached
        /\ notified_levels' = r.levels
        /\ title' = r.title
        /\ status' = r.status
        /\ cyc' = [c EXCEPT !.end = end, !.result = usage, !.branch = r.branch,
                            !.rendered = r.rendered, !.notes = c.notes \o r.notes,
                            !.levelsChanged = (r.levels # notified_levels),
                            !.caught = r.caught, !.escaped = r.escaped]

\* fetch_usage's loop ran out of attempts (173-174)
Exhausted(c, failures, cached) ==
    Finish(c, NoUsage, failures + 1, cached, "exhausted")

AfterContinue_SameAttempt(a) == a

\* `continue` in `for attempt in range(MAX_RETRIES)` takes the next index
AfterContinue(a) == a + 1

Retry_GiveUp(c, a, failures, cached) == Exhausted(c, failures, cached)

\* a retryable failure at index a: sleep and go round, or fall out of the loop
Retry(c, a, failures, cached) ==
    IF a < MAX_RETRIES - 1
    THEN ToApi(c, a + 1, failures, cached)
    ELSE Exhausted(c, failures, cached)

\* safe_refresh -> refresh -> fetch_usage -> get_token() at line 124
BeginCycle(kind, failures) ==
    LET c == [NoCycle EXCEPT !.kind = kind, !.cf0 = failures,
                             !.hadCache = Truthy(last_known_usage),
                             !.end = "running"]
    IN  IF token # None
        THEN ToApi(c, 0, failures, last_known_usage)
        ELSE /\ ToStore(c, 0, FALSE)
             /\ attempt' = attempt

\* `if self.token_refresh_attempts == 0`
AuthNotifyNeeded(attempts) == attempts = 0

AttemptsAfterSuccess_Kept(attempts) == attempts

\* `self.token_refresh_attempts = 0` on a retrieved token
AttemptsAfterSuccess(attempts) == 0

LastLookup_AbsentEndsCall(outcome, t) ==
    outcome = "absent" \/ t >= MAX_RETRIES - 1

\* a failed lookup at index t was the last of `for attempt in
\* range(MAX_RETRIES)`, whatever made it fail (97-110)
LastLookup(outcome, t) == t >= MAX_RETRIES - 1

\* one Keychain lookup of get_token (81-120) and what follows it
StoreLookup(outcome) ==
    /\ pc = "store"
    /\ LET c == [cyc EXCEPT !.lookups = Min(@ + 1, MAX_RETRIES + 1)]
       IN  IF outcome = "token"
           THEN /\ token' = Tok
                /\ token_refresh_attempts' = AttemptsAfterSuccess(token_refresh_attempts)
                /\ auth' = [notes |-> 0, exhausted |-> FALSE]
                /\ IF ~force_refresh
                   THEN ToApi(c, 0, consecutive_failures, last_known_usage)
                   ELSE IF AfterContinue(attempt) < MAX_RETRIES
                        THEN ToApi(c, AfterContinue(attempt),
                                   consecutive_failures, last_known_usage)
                        ELSE Exhausted(c, consecutive_failures, last_known_usage)
           ELSE IF ~LastLookup(outcome, tattempt)
                THEN /\ ToStore(c, tattempt + 1, force_refresh)
                     /\ UNCHANGED <<token, token_refresh_attempts, auth>>
                ELSE /\ token' = token
                     /\ IF AuthNotifyNeeded(token_refresh_attempts)
                        THEN /\ token_refresh_attempts' = token_refresh_attempts + 1
                             /\ auth' = [notes |-> Min(auth.notes + 1, 2),
                                         exhausted |-> TRUE]
                             /\ Finish([c EXCEPT !.notes = Append(@, AuthNotification)],
                                       NoUsage, consecutive_failures, last_known_usage,
                                       IF force_refresh THEN "refresh_failed"
                                                        ELSE "no_token")
                        ELSE /\ token_refresh_attempts' = token_refresh_attempts
                             /\ auth' = [auth EXCEPT !.exhausted = TRUE]
                             /\ Finish(c, NoUsage, consecutive_failures,
                                       last_known_usage,
                                       IF force_refresh THEN "refresh_failed"
                                                        ELSE "no_token")
    /\ UNCHANGED <<active, probe>>

\* one API request answered 2xx with the JSON body `body` (147-155)
ApiOk(body) ==
    /\ pc = "api"
    /\ LET c == [cyc EXCEPT !.apiCalls = Min(@ + 1, MAX_RETRIES + 1),
                            !.lastResp = "200", !.saw2xx = TRUE, !.lookups = 0]
       IN  IF body.kind = "nondict"
           \* cached at 151-152, then the log line at 153 raises: line 167
           THEN Retry(c, attempt, 0, body)
           ELSE Finish(c, body, 0, body, "ok")
    /\ UNCHANGED <<token, token_refresh_attempts, auth,
                   active, probe>>

\* one API request that did not answer 2xx with a JSON body (139-171)
ApiFail(code) ==
    /\ pc = "api"
    /\ LET c == [cyc EXCEPT !.apiCalls = Min(@ + 1, MAX_RETRIES + 1),
                            !.lastResp = ResponseClass(code), !.lookups = 0]
       IN  IF code = "401"
           THEN /\ token' = None
                /\ ToStore(c, 0, TRUE)
           ELSE /\ token' = token
                /\ IF code = "4xx"
                   THEN Finish(c, NoUsage, consecutive_failures,
                               last_known_usage, "client_error")
                   ELSE Retry(c, attempt, consecutive_failures, last_known_usage)
    /\ UNCHANGED <<token_refresh_attempts, auth,
                   active, probe>>

(***************************************************************************)
(* The callers of safe_refresh: __init__ (74), the rumps Timer (70-71) and *)
(* the "Refresh Now" menu item (56, 235-240).  The timer and the menu item *)
(* are callbacks of the application's run loop (317): it calls them on the *)
(* main thread, which a cycle's blocking calls (subprocess.run,            *)
(* requests.get, time.sleep) occupy until safe_refresh returns.  The file  *)
(* starts no thread.  A timer that falls due during a cycle fires when the *)
(* run loop is next free.                                                  *)
(***************************************************************************)
MainThreadFree_Reentrant == pc \in {"idle", "store", "api"}

\* the run loop calls a callback only between callbacks
MainThreadFree == pc = "idle"

\* the initial safe_refresh(None) of __init__
InitialRefresh ==
    /\ pc = "init"
    /\ active' = active + 1
    /\ BeginCycle("init", consecutive_failures)
    /\ UNCHANGED <<token, token_refresh_attempts, auth, probe>>

\* the run loop calls safe_refresh for the timer
TimerCallback ==
    /\ MainThreadFree
    /\ consecutive_failures < MaxFailures
    /\ active' = active + 1
    /\ BeginCycle("timer", consecutive_failures)
    /\ UNCHANGED <<token, token_refresh_attempts, auth, probe>>

ManualFailures_Kept(failures) == failures

\* `self.consecutive_failures = 0` of manual_refresh (239)
ManualFailures(failures) == 0

\* manual_refresh (235-240) up to its first external call
manual_refresh ==
    /\ MainThreadFree
    /\ active' = active + 1
    /\ LET c == [NoCycle EXCEPT
                    !.kind = "manual",
                    !.cf0 = ManualFailures(consecutive_failures),
                    !.hadCache = Truthy(last_known_usage),
                    !.overLimit = (consecutive_failures >= CacheFailureLimit),
                    !.end = "running"]
       IN  /\ title' = <<"hourglass">>
           /\ status' = <<"Refreshing...">>
           /\ consecutive_failures' = ManualFailures(consecutive_failures)
           /\ cyc' = c
           /\ pc' = IF token # None THEN "api" ELSE "store"
           /\ attempt' = 0
           /\ tattempt' = 0
           /\ force_refresh' = FALSE
    /\ UNCHANGED <<token, notified_levels, last_known_usage,
                   token_refresh_attempts, auth, probe>>

\* safe_refresh has returned or raised; control goes back to its caller.
\* A fault out of the initial call leaves __init__ and ends the process
\* (316-320); one out of a callback is left to the run loop.
Return ==
    /\ pc = "done"
    /\ pc' = IF cyc.kind = "init" /\ cyc.escaped THEN "crashed" ELSE "idle"
    /\ active' = active - 1
    /\ cyc' = NoCycle
    /\ UNCHANGED <<prog, attempt, tattempt, force_refresh, auth, probe>>

StoreStep == \E outcome \in StoreOutcomes : StoreLookup(outcome)
ApiOkStep == \E body \in Bodies : ApiOk(body)
ApiFailStep == \E code \in ApiFailures : ApiFail(code)

Next ==
    \/ InitialRefresh
    \/ TimerCallback
    \/ manual_refresh
    \/ StoreStep
    \/ ApiOkStep
    \/ ApiFailStep
    \/ Return

Spec == Init /\ [][Next]_vars

\* Every external call returns: the Keychain lookup has a 10 s timeout and
\* the API request a 15 s timeout, and the code between them does not block.
ExternalCallReturns == StoreStep \/ ApiOkStep \/ ApiFailStep

FairSpec == Spec /\ WF_vars(ExternalCallReturns)

(***************************************************************************)
(* check_thresholds on its own: any sequence of calls, on a fresh          *)
(* instance, with any percentage and either label.  probe records the last *)
(* call and, per label, the previous percentage, the highest percentage    *)
(* and the notifications emitted since the label's last call below the     *)
(* warning threshold.                                                      *)
(***************************************************************************)
PctInputs == {40, 69, 70, 85, 96}

Max(a, b) == IF a >= b THEN a ELSE b

\* the levels among the notifications of one call for `label`
EmittedLevels(notes, label) ==
    {v \in DOMAIN THRESHOLDS :
        \E i \in 1..Len(notes) : notes[i] = <<NotificationTitle(v), label>>}

\* progress of a label through: at or above critical (1), then below
\* warning (2), then at or above warning again (3)
NextTrip(t, pct) ==
    IF t \in {0, 3}
    THEN IF pct >= THRESHOLDS["critical"] THEN 1
         ELSE IF t = 3 /\ pct < THRESHOLDS["warning"] THEN 2 ELSE 0
    ELSE IF t = 1
    THEN IF pct < THRESHOLDS["warning"] THEN 2 ELSE 1
    ELSE IF pct >= THRESHOLDS["warning"] THEN 3 ELSE 2

CheckCall(pct, label) ==
    /\ pc = "init"
    /\ LET r  == check_thresholds(notified_levels, pct, label)
           em == EmittedLevels(r.notes, label)
           below == pct < THRESHOLDS["warning"]
       IN  /\ notified_levels' = r.levels
           /\ probe' =
                [label   |-> label,
                 pct     |-> pct,
                 prev    |-> probe.last[label],
                 emitted |-> em,
                 notes   |-> r.notes,
                 last    |-> [probe.last EXCEPT ![label] = pct],
                 peak    |-> [probe.peak EXCEPT
                                ![label] = IF below THEN -1 ELSE Max(@, pct)],
                 count   |-> [probe.count EXCEPT ![label] =
                                [v \in DOMAIN THRESHOLDS |->
                                   IF below THEN 0
                                   ELSE Min(@[v] + (IF v \in em THEN 1 ELSE 0), 2)]],
                 trip    |-> [probe.trip EXCEPT ![label] = NextTrip(@, pct)]]
    /\ UNCHANGED <<token, consecutive_failures, last_known_usage,
                   token_refresh_attempts, title, status, ctl, cyc, auth>>

NotifierNext == \E pct \in PctInputs, label \in Labels : CheckCall(pct, label)

NotifierSpec == Init /\ [][NotifierNext]_vars

(***************************************************************************)
(* Properties                                                              *)
(***************************************************************************)
Done == pc = "done"

\* the notification n was emitted in the current cycle
EmittedInCycle(n) == \E i \in 1..Len(cyc.notes) : cyc.notes[i] = n

\* the fetch ended by running out of attempts, no attempt having got a 2xx
ExhaustedWithout2xx == Done /\ cyc.end = "exhausted" /\ ~cyc.saw2xx

WellFormed(u) == u.kind = "data" /\ ~UtilFaults(u) /\ ~ResetFaults(u)

ErrorStatuses == {<<"Connection failed">>, <<"Error">>}

\* C1: a 401 followed by a successful forced token refresh does not consume
\* one of the MAX_RETRIES attempts: the API call is always issued again
\* with the new token, so a fetch never ends for lack of attempts right
\* after a 401 whose refresh succeeded.
C1_RefreshedTokenIsUsed ==
    ~(Done /\ cyc.end = "exhausted" /\ cyc.lastResp = "401")

\* C2 as stated: with a cached snapshot, a cycle that starts with
\* consecutive_failures = 4 and whose fetch exhausts its attempts renders
\* the Cached state; starting with 5 it renders the Error state.
C2_AsStated ==
    (ExhaustedWithout2xx /\ cyc.hadCache) =>
        /\ (cyc.cf0 = 4 => cyc.branch = "cached")
        /\ (cyc.cf0 = 5 => cyc.branch = "error")

\* C2 amended: with a cached snapshot, a cycle whose fetch exhausts its
\* attempts without a 2xx response has its failure count incremented before
\* the fallback test, so it falls back to the cache (showing the cached
\* values whenever the snapshot is well-formed) exactly when it started
\* with consecutive_failures <= 3, and takes the Error branch when it
\* started with 4 or more.
C2_FallbackCountsTheFailedFetch ==
    (ExhaustedWithout2xx /\ cyc.hadCache) =>
        /\ consecutive_failures = cyc.cf0 + 1
        /\ (cyc.cf0 < CacheFailureLimit - 1 =>
                /\ cyc.branch = "cached"
                /\ (cyc.rendered <=> WellFormed(last_known_usage))
                /\ (cyc.rendered =>
                        title = get_title(Utilization(last_known_usage.five),
                                          Utilization(last_known_usage.week))))
        /\ (cyc.cf0 >= CacheFailureLimit - 1 =>
                cyc.branch = "error" /\ ~cyc.rendered)

C2_Witness ==
    /\ ExhaustedWithout2xx
    /\ cyc.hadCache
    /\ cyc.cf0 = CacheFailureLimit - 2
    /\ cyc.branch = "cached"
    /\ cyc.rendered

\* C3: safe_refresh never lets a fault escape, whatever the token lookup
\* and the API call produce, malformed 2xx bodies included.
C3_SafeRefreshNeverRaises == Done => ~cyc.escaped

\* C4: each (label, level) notification is emitted at most once between
\* two calls for that label below the warning threshold, and a call that
\* repeats the label's previous percentage emits nothing.
C4_OncePerEpisode ==
    /\ \A l \in Labels : \A v \in DOMAIN THRESHOLDS : probe.count[l][v] <= 1
    /\ (probe.pct # -1 /\ probe.prev = probe.pct) => probe.emitted = {}

C4_Witness ==
    /\ probe.prev = probe.pct
    /\ probe.pct >= THRESHOLDS["critical"]
    /\ probe.emitted = {}
    /\ \A v \in DOMAIN THRESHOLDS : probe.count[probe.label][v] = 1

\* C5: a call below the warning threshold removes every fired entry of its
\* label, so after critical, then below warning, then at least warning
\* again, the warning notification is emitted again, and every level the
\* percentage has reached since the drop has been emitted since the drop.
C5_HysteresisRefires ==
    /\ (probe.pct # -1 /\ probe.pct < THRESHOLDS["warning"]) =>
            \A k \in notified_levels : ~StartsWith(k, probe.label)
    /\ (probe.pct # -1 /\ probe.trip[probe.label] = 3) =>
            "warning" \in probe.emitted
    /\ \A l \in Labels : \A v \in DOMAIN THRESHOLDS :
            probe.peak[l] >= THRESHOLDS[v] => probe.count[l][v] >= 1

C5_Witness ==
    /\ probe.pct # -1
    /\ probe.trip[probe.label] = 3
    /\ "warning" \in probe.emitted

C7_StatusLineTellsCachedFromConnected ==
    Done =>
        /\ (cyc.branch = "cached" /\ ~cyc.caught) =>
                status = <<"Cached", consecutive_failures>>
        /\ status = <<"Connected">> => Truthy(cyc.result)

\* C8: the cache stands in for a fresh snapshot only while
\* consecutive_failures < 5 when the fallback is decided; a cycle whose
\* fetch returned nothing with consecutive_failures >= 5, or with no
\* snapshot cached, shows the Error state and no normal display.
C8_CacheOnlyBelowLimit ==
    Done =>
        /\ cyc.branch = "cached" =>
                /\ ~Truthy(cyc.result)
                /\ Truthy(last_known_usage)
                /\ consecutive_failures < CacheFailureLimit
        /\ (/\ ~Truthy(cyc.result)
            /\ (consecutive_failures >= CacheFailureLimit
                    \/ ~Truthy(last_known_usage))) =>
                /\ cyc.branch = "error"
                /\ ~cyc.rendered
                /\ status \in ErrorStatuses

C8_Witness ==
    /\ Done
    /\ ~Truthy(cyc.result)
    /\ WellFormed(last_known_usage)
    /\ consecutive_failures >= CacheFailureLimit
    /\ cyc.branch = "error"
    /\ status = <<"Connection failed">>

C10_CycleTerminates ==
    /\ [](cyc.apiCalls <= MAX_RETRIES /\ cyc.lookups <= MAX_RETRIES)
    /\ (pc \in {"store", "api"}) ~> Done

\* the API answered 401 to every call and every forced refresh succeeded
\* until the last, which used all its lookups
C10_Witness ==
    /\ Done
    /\ cyc.apiCalls = MAX_RETRIES
    /\ cyc.lookups = MAX_RETRIES
    /\ cyc.lastResp = "401"

\* C11: on a fresh instance (nothing notified yet), a successful cycle whose
\* snapshot has the 5h metric at or above warning and below danger and the
\* weekly metric below warning emits exactly one threshold notification,
\* "Usage Warning" for "5h limit", and none for "Weekly limit"; its title
\* shows the warning glyph for 5h and the ok glyph for weekly.  In every
\* cycle that renders a snapshot, each metric's glyph is that of the highest
\* threshold its percentage meets (ok when it meets none).
C11_FirstWarningAndGlyphs ==
    LET five == Utilization(last_known_usage.five)
        week == Utilization(last_known_usage.week)
        met(p) == {v \in DOMAIN THRESHOLDS : p >= THRESHOLDS[v]}
        highest(p) == CHOOSE v \in met(p) :
                          \A w \in met(p) : THRESHOLDS[w] <= THRESHOLDS[v]
        glyph(p) == IF met(p) = {} THEN "green"
                    ELSE [warning |-> "yellow", danger |-> "orange",
                          critical |-> "red"][highest(p)]
    IN  /\ (Done /\ cyc.rendered) =>
              /\ Len(title) = 4
              /\ title[1] = glyph(five)
              /\ title[3] = glyph(week)
        /\ ( /\ Done
             /\ cyc.kind = "init"
             /\ cyc.end = "ok"
             /\ WellFormed(cyc.result)
             /\ cyc.result.five >= THRESHOLDS["warning"]
             /\ cyc.result.five < THRESHOLDS["danger"]
             /\ Utilization(cyc.result.week) < THRESHOLDS["warning"] ) =>
              /\ cyc.notes = << <<"Usage Warning", FiveLabel>> >>
              /\ title[1] = "yellow"
              /\ title[3] = "green"

\* the first cycle of the application fetched 72% / 40% and rendered it
C11_Witness ==
    /\ Done
    /\ cyc.kind = "init"
    /\ cyc.end = "ok"
    /\ cyc.rendered
    /\ cyc.result.five = 72
    /\ cyc.result.week = 40
    /\ cyc.notes = << <<"Usage Warning", FiveLabel>> >>
    /\ notified_levels = {Key(FiveLabel, "warning")}

\* C12: while every timer cycle's fetch fails, for whatever reason (no
\* token, a 4xx other than 401, a failed token refresh after a 401, or the
\* retries exhausted), and nobody refreshes manually, consecutive_failures
\* grows with each failed cycle, so that after at most five such cycles the
\* Error state is rendered instead of the stale cache.  Cycle by cycle: a
\* timer cycle whose fetch failed ends with a higher count than it started
\* with, and one that started with four or more failures behind it does not
\* render from the cache.
C12_EveryFailedCycleCounts ==
    ( /\ Done
      /\ cyc.kind = "timer"
      /\ cyc.end \in {"no_token", "client_error", "refresh_failed", "exhausted"} ) =>
        /\ consecutive_failures > cyc.cf0
        /\ cyc.cf0 >= CacheFailureLimit - 1 => cyc.branch = "error"

\* C13: a fetch_usage call that ends because all attempts were used without
\* a 2xx response increments consecutive_failures by exactly one and returns
\* nothing; a call that obtains a 2xx response stores the body as
\* last_known_usage, sets consecutive_failures to 0 and returns the body.
\* So consecutive_failures rises by at most one per cycle and is never
\* negative.
C13_FailureCounterBookkeeping ==
    Done =>
        /\ ExhaustedWithout2xx =>
              /\ consecutive_failures = cyc.cf0 + 1
              /\ cyc.result = NoUsage
        /\ cyc.saw2xx =>
              /\ cyc.end = "ok"
              /\ cyc.result = last_known_usage
              /\ consecutive_failures = 0
        /\ consecutive_failures <= cyc.cf0 + 1
        /\ consecutive_failures >= 0

\* C14: a 4xx response other than 401 ends the fetch at once, with no
\* further API call in the cycle; a 5xx response, a timeout or a connection
\* error is retried as long as attempts remain (and ends the fetch as
\* exhausted when none does); a 401 whose forced token refresh fails ends
\* the fetch at once, with no further API call.  cyc.lastResp is the class
\* of the cycle's latest API call, so it tells that no call followed.
C14_ResponseClassification ==
    /\ cyc.lastResp = "4xx" =>
          /\ Done
          /\ cyc.end = "client_error"
          /\ cyc.result = NoUsage
    /\ cyc.lastResp = "retryable" =>
          IF cyc.apiCalls < MAX_RETRIES
          THEN pc = "api" /\ attempt = cyc.apiCalls
          ELSE Done /\ cyc.end = "exhausted" /\ cyc.result = NoUsage
    /\ cyc.end = "refresh_failed" =>
          /\ Done
          /\ cyc.lastResp = "401"
          /\ cyc.result = NoUsage
    /\ (Done /\ cyc.lastResp = "401" /\ token = None) =>
          cyc.end = "refresh_failed"

\* a first call failed in a retryable way and the second is about to be
\* issued
C14_WitnessRetry ==
    /\ pc = "api"
    /\ cyc.lastResp = "retryable"
    /\ cyc.apiCalls = 1
    /\ attempt = 1

\* C15: manual_refresh sets consecutive_failures to 0 before it runs the
\* cycle, so with a cached snapshot present a manual refresh whose fetch
\* fails takes the fallback to the cache, never the Error state of
\* "Connection failed", whatever the failure count was before, 5 or more
\* included; a well-formed cached snapshot is then what the title shows.
C15_ManualRefreshGivesCacheAChance ==
    /\ cyc.kind = "manual" => cyc.cf0 = 0 /\ consecutive_failures <= 1
    /\ ( /\ Done
         /\ cyc.kind = "manual"
         /\ cyc.hadCache
         /\ cyc.end # "ok" ) =>
          /\ cyc.branch = "cached"
          /\ status # <<"Connection failed">>
          /\ WellFormed(last_known_usage) =>
                /\ cyc.rendered
                /\ title = get_title(Utilization(last_known_usage.five),
                                     Utilization(last_known_usage.week))

\* "Refresh Now" was clicked with five or more failures counted, the fetch
\* failed again and the cached snapshot was rendered
C15_Witness ==
    /\ Done
    /\ cyc.kind = "manual"
    /\ cyc.overLimit
    /\ cyc.hadCache
    /\ cyc.end = "exhausted"
    /\ cyc.branch = "cached"
    /\ cyc.rendered

\* C16: a cycle that renders the Error state performs no threshold check:
\* notified_levels is unchanged and no threshold notification is emitted in
\* the cycle; its title is the warning glyph followed by the last-known
\* percentages if a snapshot is cached, and the bare warning glyph
\* otherwise.
C16_ErrorStateShowsLastKnown ==
    (Done /\ cyc.branch = "error") =>
        /\ ~cyc.levelsChanged
        /\ \A i \in 1..Len(cyc.notes) : cyc.notes[i] = AuthNotification
        /\ title = IF Truthy(last_known_usage)
                   THEN <<"warn", Utilization(last_known_usage.five),
                                  Utilization(last_known_usage.week)>>
                   ELSE <<"warn">>

\* C17: get_token with a cached token and no force_refresh returns it with
\* no Keychain lookup.  Otherwise it looks up until the first lookup that
\* yields a token, at most MAX_RETRIES times; a lookup whose payload lacks
\* the token field uses up an attempt exactly as a timeout, an access error
\* or a malformed payload does, so the call gives up only after MAX_RETRIES
\* lookups.  On success the token is cached and token_refresh_attempts is 0.
C17_TokenStoreAccess ==
    /\ [](/\ pc = "store" =>
                /\ token = None
                /\ tattempt < MAX_RETRIES
                /\ cyc.lookups = tattempt
          /\ cyc.lookups <= MAX_RETRIES
          /\ token # None => token_refresh_attempts = 0
          /\ (Done /\ cyc.end \in {"no_token", "refresh_failed"}) =>
                /\ cyc.lookups = MAX_RETRIES
                /\ token = None)
    /\ [][/\ (pc \in {"init", "idle"} /\ pc' \in {"store", "api"}) =>
                IF token # None
                THEN pc' = "api" /\ cyc'.lookups = 0 /\ token' = token
                ELSE pc' = "store" /\ cyc'.lookups = 0
          /\ (pc = "store" /\ token' # None) =>
                /\ pc' # "store"
                /\ token' = Tok
                /\ token_refresh_attempts' = 0
                /\ cyc'.lookups = tattempt + 1]_vars

\* the token came with the third lookup of the first get_token call of a
\* timer cycle
C17_Witness ==
    /\ pc = "api"
    /\ cyc.apiCalls = 0
    /\ cyc.lookups = MAX_RETRIES
    /\ token = Tok
    /\ token_refresh_attempts = 0
    /\ cyc.kind = "timer"

\* C18: the hysteresis reset is scoped to the metric: a check_thresholds
\* call for one label, with a percentage below warning or not, leaves the
\* fired entries of the other label as they were, adds no entry for the
\* other label and emits no notification for it.  probe'.label is the label
\* of the call a step makes.
C18_ClearingIsPerMetric ==
    [][LET entries(levels, l) ==
               levels \cap {Key(l, v) : v \in DOMAIN THRESHOLDS}
       IN  \A l \in Labels \ {probe'.label} :
               /\ entries(notified_levels', l) = entries(notified_levels, l)
               /\ \A i \in 1..Len(probe'.notes) : probe'.notes[i][2] # l]_vars

\* the 5h metric fell below warning after having been above it, and its
\* entries are gone, while all three weekly entries are still there
C18_Witness ==
    /\ probe.label = FiveLabel
    /\ probe.pct < THRESHOLDS["warning"]
    /\ probe.prev >= THRESHOLDS["critical"]
    /\ notified_levels = {Key(WeekLabel, v) : v \in DOMAIN THRESHOLDS}

\* C19: a cycle rendered from the cached snapshot (the fetch failed and the
\* fallback was taken) emits no threshold notification and leaves
\* notified_levels as it found it: the cached values were checked in the
\* cycle that cached them.  The only notification such a cycle can emit is
\* the authentication one of get_token.
C19_CachedRenderIsSilent ==
    (Done /\ cyc.branch = "cached") =>
        /\ ~cyc.levelsChanged
        /\ \A i \in 1..Len(cyc.notes) : cyc.notes[i] = AuthNotification

\* a snapshot with the 5h metric above critical was rendered again from the
\* cache and nothing was notified
C19_Witness ==
    /\ Done
    /\ cyc.branch = "cached"
    /\ cyc.rendered
    /\ cyc.end = "exhausted"
    /\ last_known_usage.five >= THRESHOLDS["critical"]
    /\ Key(FiveLabel, "critical") \in notified_levels
    /\ cyc.notes = <<>>

\* C20: between check_thresholds calls notified_levels is downward closed
\* per metric: a fired level has every lower level of the same label fired
\* too.  A single call with a percentage at or above critical for a label
\* with nothing fired (never checked, or last checked below warning) emits
\* all three notifications, in the order warning, danger, critical.
C20_DownwardClosedAndOrdered ==
    /\ \A l \in Labels : \A v, w \in DOMAIN THRESHOLDS :
          (Key(l, v) \in notified_levels /\ THRESHOLDS[w] <= THRESHOLDS[v]) =>
              Key(l, w) \in notified_levels
    /\ (probe.pct >= THRESHOLDS["critical"] /\ probe.prev < THRESHOLDS["warning"]) =>
          probe.notes = << <<"Usage Warning", probe.label>>,
                           <<"Usage High", probe.label>>,
                           <<"Usage Critical!", probe.label>> >>

\* the weekly metric was first seen above critical while the 5h metric had
\* warning and danger fired
C20_Witness ==
    /\ probe.label = WeekLabel
    /\ probe.prev = -1
    /\ probe.pct >= THRESHOLDS["critical"]
    /\ Len(probe.notes) = 3
    /\ notified_levels = {Key(WeekLabel, v) : v \in DOMAIN THRESHOLDS}
                             \cup {Key(FiveLabel, "warning"), Key(FiveLabel, "danger")}

====
